---- MODULE Spec2Model ----
(***************************************************************************)
(* PaperInsight-AI: the job queue of App.tsx (execution queue, drain       *)
(* effect, per-job abort controllers) and the request layer of the AI      *)
(* service (runWithRetry, dispatchAIRequest, analyzePaperWithGemini).      *)
(*                                                                         *)
(* The browser runs one event loop: every handler, and every continuation  *)
(* after an await, runs to its next await without interleaving.  One       *)
(* action of this module is one such run.  React re-runs the queue effect  *)
(* after every commit that changed executionQueue or isProcessingQueue;    *)
(* effectPending marks such a commit, and the effect runs before any other *)
(* event is handled.                                                       *)
(***************************************************************************)
EXTENDS Integers, Sequences, FiniteSets, TLC

\* ------------------------------------------------------------------ bounds
MaxJobs == 3        \* jobs submitted in a run
MaxBatch == 2       \* queries in one batch submission
MaxDirect == 1      \* jobs run outside the queue in a run: Retry clicks, PDF files
MaxTimers == 1      \* reset timers pending at a time
MaxRetriesArg == 3  \* retries passed to a direct call of runWithRetry
MaxDelayFactor == 2 \* base delays passed to it: DefaultBaseDelay * 1..MaxDelayFactor
MaxSegments == 3     \* pieces a text handed to extractJSON is put together from
MaxPieces == 2       \* pieces of a string handed to JSON.stringify
MaxItems == 2        \* items of an array or object handed to JSON.stringify
MaxRecs == 2         \* recommendations in a timeliness report

\* -------------------------------------------------------- program constants
DefaultRetries == 2         \* runWithRetry: retries = 2
DefaultBaseDelay == 1000    \* runWithRetry: baseDelay = 1000

\* --------------------------------------------------------------- App state
VARIABLES
    history,            \* useState<HistoryItem[]>: id -> [status, analysis]
    executionQueue,     \* useState<string[]>
    isProcessingQueue,  \* useState(false)
    batchProgress,      \* useState({current, total})
    abortControllers,   \* abortControllersRef: id -> controller (0 = no entry)
    aborted,            \* controllers of in-flight attempts whose signal is aborted
    attempts,           \* analyzePaper calls in flight: [id, ctrl, viaQueue]
    nextId,             \* local nextId of the suspended processNextInQueue (0 = none)
    effectPending,      \* a commit changed the effect's dependencies
    fileReads,          \* startAnalysis(file) suspended in fileToBase64: [id, snap]
    timers,             \* pending setTimeout(reset batchProgress, 3000)
    idSeq,              \* number of job ids handed out so far
    retrySeq,           \* number of Retry clicks so far
    fileSeq,            \* number of PDF-file submissions so far
    \* observations of the run, written by the actions and read by no action
    lastStarted,        \* the job the drain loop took last (0 = none yet)
    lastDone,           \* lastStarted has had a terminal status since, or is gone
    cancelledQueued     \* ids cancelled while queued and not yet taken

appVars == <<history, executionQueue, isProcessingQueue, batchProgress,
             abortControllers, aborted, attempts, nextId, effectPending,
             fileReads, timers, idSeq, retrySeq, fileSeq,
             lastStarted, lastDone, cancelledQueued>>

\* --------------------------------------------------- state of an AI request
VARIABLES
    currentSettings,    \* the global settings store
    envApiKey,          \* process.env.API_KEY
    signalAborted,      \* signal.aborted of the call's AbortSignal
    pc,                 \* where the call is suspended: idle, attempt, wait, done
    frame,              \* locals of the suspended frames: [top, op, settings,
                        \*   models, idx, retries, baseDelay]
    result,             \* what the top-level call settled with
    \* observations of the call, written by the actions and read by no action
    calls,              \* provider calls made: [op, model, out]
    rws,                \* runWithRetry calls made by the caller:
                        \*   [N, d, attempts, waits, errs, out, aborted]
    dispatchOut,        \* what dispatchAIRequest settled with
    abortAt             \* provider calls made by the time the signal was aborted

svcVars == <<currentSettings, envApiKey, signalAborted, pc, frame, result,
             calls, rws, dispatchOut, abortAt>>

\* ------------------------------------------------- state of an extractJSON call
VARIABLES
    jsonSegs,           \* the pieces the text handed to extractJSON is made of
    jsonSource,         \* the value the text is the JSON.stringify of, if any
    jsonCall,           \* which extractJSON was called: none, extractJSON,
                        \*   extractJSONOpenAI
    jsonResult          \* what the call did: return a value or throw

jsonVars == <<jsonSegs, jsonSource, jsonCall, jsonResult>>

\* ------------------------------------------ state of a best-effort check
VARIABLES
    chkFn,              \* the check that was called
    chkVersion,         \* which of its two versions
    chkPc,              \* idle, main (awaiting the provider), links, done
    chkMain,            \* what the provider call of the check settled with
    chkReport,          \* the parsed report while the link sub-queries run
    chkLinks,           \* per recommendation: the sub-query's link or Pending
    chkResult           \* what the check did: return a record or throw

chkVars == <<chkFn, chkVersion, chkPc, chkMain, chkReport, chkLinks, chkResult>>


vars == <<appVars, svcVars, jsonVars, chkVars>>

Ids == 1..MaxJobs
Terminal == {"completed", "error"}

Range(s) == {s[i] : i \in DOMAIN s}

FilterOut_Keep(q, id) == q

\* prev.filter(qid => qid !== id)
RECURSIVE FilterOut(_, _)
FilterOut(q, id) ==
    IF q = <<>> THEN <<>>
    ELSE IF Head(q) = id THEN FilterOut(Tail(q), id)
         ELSE <<Head(q)>> \o FilterOut(Tail(q), id)

\* prev.slice(1)
Slice1(q) == IF q = <<>> THEN <<>> ELSE Tail(q)

\* prev.map(item => item.id === id ? {...item, analysis: data, status} : item)
MapItem(h, id, status, analysis) ==
    [i \in DOMAIN h |->
        IF i = id THEN [h[i] EXCEPT !.status = status, !.analysis = analysis] ELSE h[i]]

SetStatus_All(h, id, status) == [i \in DOMAIN h |-> [h[i] EXCEPT !.status = status]]
\* prev.map(h => h.id === id ? {...h, status} : h)
SetStatus(h, id, status) ==
    [i \in DOMAIN h |-> IF i = id THEN [h[i] EXCEPT !.status = status] ELSE h[i]]

NewItem(status) == [status |-> status, analysis |-> FALSE]

\* job id is through in history h: terminal status, or no longer an item
Done(h, id) == id \notin DOMAIN h \/ h[id].status \in Terminal

AppInit ==
    /\ history = <<>>
    /\ executionQueue = <<>>
    /\ isProcessingQueue = FALSE
    /\ batchProgress = [current |-> 0, total |-> 0]
    /\ abortControllers = [i \in Ids |-> 0]
    /\ aborted = {}
    /\ attempts = {}
    /\ nextId = 0
    /\ effectPending = FALSE
    /\ fileReads = {}
    /\ timers = 0
    /\ idSeq = 0
    /\ retrySeq = 0
    /\ fileSeq = 0
    /\ lastStarted = 0
    /\ lastDone = FALSE
    /\ cancelledQueued = {}

Enqueue_Prepend(queue, newIds) == newIds \o queue

\* line 1001: setExecutionQueue(prev => [...prev, ...newIds])
Enqueue(queue, newIds) == queue \o newIds

\* startAnalysis(queries, false): one queued history item per query, all
\* appended to the execution queue.
startAnalysis(n) ==
    /\ ~effectPending
    /\ idSeq + n <= MaxJobs
    /\ LET newIds == [k \in 1..n |-> idSeq + k]
       IN /\ history' = [i \in DOMAIN history \cup Range(newIds) |->
                            IF i \in DOMAIN history THEN history[i]
                            ELSE NewItem("queued")]
          /\ batchProgress' = [current |-> batchProgress.current,
                               total |-> batchProgress.total + n]
          /\ executionQueue' = Enqueue(executionQueue, newIds)
          /\ idSeq' = idSeq + n
    /\ effectPending' = TRUE
    /\ lastDone' = (lastDone \/ Done(history', lastStarted))
    /\ UNCHANGED <<isProcessingQueue, abortControllers, aborted, attempts, nextId,
                   fileReads, timers, retrySeq, fileSeq, lastStarted, cancelledQueued>>
    /\ UNCHANGED <<svcVars, jsonVars, chkVars>>

CanStart_NoLock(queue, processing) == Len(queue) > 0

\* line 477: the drain loop takes a job only when none is being processed
CanStart(queue, processing) == Len(queue) > 0 /\ ~processing

\* line 503: the whole batch has been processed
BatchFinished(queue, bp) == Len(queue) = 0 /\ bp.total > 0 /\ bp.current = bp.total

\* new AbortController(): an object distinct from every live controller
FreshController ==
    CHOOSE c \in 1..(Cardinality(attempts) + MaxJobs + 1) :
        /\ \A a \in attempts : a.ctrl # c
        /\ \A i \in Ids : abortControllers[i] # c
        /\ \A d \in 1..(c - 1) :
              \/ \E a \in attempts : a.ctrl = d
              \/ \E i \in Ids : abortControllers[i] = d

\* processPaperAnalysis up to its await: a fresh AbortController registered
\* under the job id (replacing any entry), analyzePaper in flight.
BeginAttempt(id, viaQueue) ==
    LET c == FreshController IN
    /\ abortControllers' = [abortControllers EXCEPT ![id] = c]
    /\ attempts' = attempts \cup {[id |-> id, ctrl |-> c, viaQueue |-> viaQueue]}

\* The queue effect (processNextInQueue) up to its first await, or to its
\* end when it does not await.  pdfTitle: the item's title holds
\* "(PDF Analysis)".
processNextInQueue(pdfTitle) ==
    /\ effectPending
    /\ IF CanStart(executionQueue, isProcessingQueue)
       THEN LET id == Head(executionQueue) IN
            /\ IF id \in DOMAIN history
               THEN /\ lastStarted' = id
                    /\ IF ~pdfTitle
                       THEN \* status analyzing, await processPaperAnalysis
                            /\ history' = SetStatus(history, id, "analyzing")
                            /\ BeginAttempt(id, TRUE)
                            /\ nextId' = id
                            /\ isProcessingQueue' = TRUE
                            /\ effectPending' = FALSE
                            /\ UNCHANGED <<executionQueue, batchProgress>>
                       ELSE \* status analyzing, then error, no await
                            /\ history' = SetStatus(history, id, "error")
                            /\ batchProgress' = [batchProgress EXCEPT !.current = @ + 1]
                            /\ executionQueue' = Slice1(executionQueue)
                            /\ effectPending' = TRUE
                            /\ UNCHANGED <<isProcessingQueue, abortControllers, attempts,
                                           nextId>>
                    /\ lastDone' = Done(history', id)
               ELSE \* no such history item: drop the head
                    /\ executionQueue' = Slice1(executionQueue)
                    /\ effectPending' = TRUE
                    /\ UNCHANGED <<history, batchProgress, isProcessingQueue,
                                   abortControllers, attempts, nextId, lastStarted,
                                   lastDone>>
            /\ UNCHANGED timers
       ELSE /\ IF BatchFinished(executionQueue, batchProgress)
               THEN timers < MaxTimers /\ timers' = timers + 1
               ELSE UNCHANGED timers
            /\ effectPending' = FALSE
            /\ UNCHANGED <<history, executionQueue, isProcessingQueue, batchProgress,
                           abortControllers, attempts, nextId, lastStarted, lastDone>>
    /\ UNCHANGED <<aborted, fileReads, idSeq, retrySeq, fileSeq, cancelledQueued>>
    /\ UNCHANGED <<svcVars, jsonVars, chkVars>>

\* setTimeout(() => setBatchProgress({current: 0, total: 0}), 3000)
resetBatchProgress ==
    /\ ~effectPending
    /\ timers > 0
    /\ timers' = timers - 1
    /\ batchProgress' = [current |-> 0, total |-> 0]
    /\ UNCHANGED <<history, executionQueue, isProcessingQueue, abortControllers,
                   aborted, attempts, nextId, effectPending, fileReads, idSeq,
                   retrySeq, fileSeq, lastStarted, lastDone, cancelledQueued>>
    /\ UNCHANGED <<svcVars, jsonVars, chkVars>>

\* analyzePaperWithGemini as App.tsx calls it: the provider call settles with
\* outcome "ok" or "err". A rejection with the signal aborted becomes the
\* "stopped by the user" rejection; a value is returned as it is, because only
\* the catch block looks at the signal (a native call does not take the
\* signal, so it can return a value after the signal was aborted).
AnalyzeOutcome(outcome, isAborted) ==
    IF isAborted /\ outcome = "err" THEN "stopped" ELSE outcome

\* processPaperAnalysis after its await: what it records for the job.
\* "none": returned without touching the job.
Recording(res, hasController) ==
    IF ~hasController THEN "none"
    ELSE IF res = "ok" THEN "completed"
    ELSE IF res = "stopped" THEN "none"
    ELSE "error"

\* analyzePaper of attempt a settles; processPaperAnalysis resumes and, when
\* the drain loop awaited it, processNextInQueue resumes after it.
settleAnalysis(a, outcome) ==
    /\ ~effectPending
    /\ a \in attempts
    /\ LET res == AnalyzeOutcome(outcome, a.ctrl \in aborted)
           rec == Recording(res, abortControllers[a.id] # 0)
       IN /\ history' = IF rec = "completed" THEN MapItem(history, a.id, "completed", TRUE)
                        ELSE IF rec = "error" THEN SetStatus(history, a.id, "error")
                        ELSE history
          /\ abortControllers' = IF rec = "none" THEN abortControllers
                                 ELSE [abortControllers EXCEPT ![a.id] = 0]
    /\ attempts' = attempts \ {a}
    /\ aborted' = aborted \ {a.ctrl}
    /\ IF a.viaQueue
       THEN /\ batchProgress' = [batchProgress EXCEPT !.current = @ + 1]
            /\ executionQueue' = Slice1(executionQueue)
            /\ isProcessingQueue' = FALSE
            /\ effectPending' = TRUE
            /\ nextId' = 0
       ELSE UNCHANGED <<batchProgress, executionQueue, isProcessingQueue, effectPending,
                        nextId>>
    /\ lastDone' = (lastDone \/ Done(history', lastStarted))
    /\ UNCHANGED <<fileReads, timers, idSeq, retrySeq, fileSeq, lastStarted,
                   cancelledQueued>>
    /\ UNCHANGED <<svcVars, jsonVars, chkVars>>

\* abortAnalysis(id), offered by the LoadingView of a queued or analyzing job.
abortAnalysis(id) ==
    /\ ~effectPending
    /\ id \in DOMAIN history
    /\ history[id].status \in {"queued", "analyzing"}
    /\ aborted' = IF \E a \in attempts : a.ctrl = abortControllers[id]
                  THEN aborted \cup {abortControllers[id]} ELSE aborted
    /\ abortControllers' = [abortControllers EXCEPT ![id] = 0]
    /\ executionQueue' = FilterOut(executionQueue, id)
    /\ history' = SetStatus(history, id, "error")
    /\ effectPending' = TRUE
    /\ cancelledQueued' = IF /\ history[id].status = "queued"
                             /\ id \in Range(executionQueue)
                             /\ id # nextId
                          THEN cancelledQueued \cup {id} ELSE cancelledQueued
    /\ lastDone' = (lastDone \/ Done(history', lastStarted))
    /\ UNCHANGED <<isProcessingQueue, batchProgress, attempts, nextId, fileReads,
                   timers, idSeq, retrySeq, fileSeq, lastStarted>>
    /\ UNCHANGED <<svcVars, jsonVars, chkVars>>

\* "Retry Analysis" on a job in error: processPaperAnalysis(id, title).
retryAnalysis(id) ==
    /\ ~effectPending
    /\ id \in DOMAIN history
    /\ history[id].status = "error"
    /\ retrySeq + fileSeq < MaxDirect
    /\ retrySeq' = retrySeq + 1
    /\ BeginAttempt(id, FALSE)
    /\ UNCHANGED <<history, executionQueue, isProcessingQueue, batchProgress, aborted,
                   nextId, effectPending, fileReads, timers, idSeq, fileSeq,
                   lastStarted, lastDone, cancelledQueued>>
    /\ UNCHANGED <<svcVars, jsonVars, chkVars>>

\* startAnalysis(queries, true) up to await fileToBase64: the id is drawn and
\* the handler keeps the history of the render it was created in.
startFileAnalysis ==
    /\ ~effectPending
    /\ idSeq < MaxJobs
    /\ retrySeq + fileSeq < MaxDirect
    /\ idSeq' = idSeq + 1
    /\ fileSeq' = fileSeq + 1
    /\ fileReads' = fileReads \cup {[id |-> idSeq + 1, snap |-> history]}
    /\ UNCHANGED <<history, executionQueue, isProcessingQueue, batchProgress,
                   abortControllers, aborted, attempts, nextId, effectPending, timers,
                   retrySeq, lastStarted, lastDone, cancelledQueued>>
    /\ UNCHANGED <<svcVars, jsonVars, chkVars>>

\* fileToBase64 resolved: history := [newItem, ...history of that render],
\* the new item set analyzing and processed directly, outside the queue.
fileAnalysisRead(f) ==
    /\ ~effectPending
    /\ f \in fileReads
    /\ fileReads' = fileReads \ {f}
    /\ history' = [i \in DOMAIN f.snap \cup {f.id} |->
                      IF i = f.id THEN NewItem("analyzing") ELSE f.snap[i]]
    /\ BeginAttempt(f.id, FALSE)
    /\ lastDone' = (lastDone \/ Done(history', lastStarted))
    /\ UNCHANGED <<executionQueue, isProcessingQueue, batchProgress, aborted, nextId,
                   effectPending, timers, idSeq, retrySeq, fileSeq, lastStarted,
                   cancelledQueued>>
    /\ UNCHANGED <<svcVars, jsonVars, chkVars>>

\* fileToBase64 rejected: "Failed to read file", nothing else happens.
fileAnalysisFailed(f) ==
    /\ ~effectPending
    /\ f \in fileReads
    /\ fileReads' = fileReads \ {f}
    /\ UNCHANGED <<history, executionQueue, isProcessingQueue, batchProgress,
                   abortControllers, aborted, attempts, nextId, effectPending, timers,
                   idSeq, retrySeq, fileSeq, lastStarted, lastDone, cancelledQueued>>
    /\ UNCHANGED <<svcVars, jsonVars, chkVars>>

QueueNext ==
    \/ \E n \in 1..MaxBatch : startAnalysis(n)
    \/ \E pdfTitle \in BOOLEAN : processNextInQueue(pdfTitle)
    \/ resetBatchProgress
    \/ \E a \in attempts, outcome \in {"ok", "err"} : settleAnalysis(a, outcome)
    \/ \E id \in Ids : abortAnalysis(id)
    \/ \E id \in Ids : retryAnalysis(id)
    \/ startFileAnalysis
    \/ \E f \in fileReads : fileAnalysisRead(f)
    \/ \E f \in fileReads : fileAnalysisFailed(f)

\* ------------------------------------------------------- the AI service
\* An error object as runWithRetry, dispatchAIRequest and analyzePaper see
\* it: error.status (0: no such field) and error.message, the latter as the
\* set of the substrings the code tests for that it contains.  An error
\* created with one fixed message carries that message.
Err(status, msg) == [status |-> status, msg |-> msg]

NoError == Err(0, {"-"})

\* line 31, 34: new Error("Aborted")
AbortedError == Err(0, {"Aborted"})

\* line 286
StoppedError == Err(0, {"Analysis process was stopped by the user."})

\* line 166
MissingKeyError == Err(0, {"API Key is missing for Gemini."})

\* line 213
KeyRequiredError == Err(0, {"API Key is required for third-party providers."})

\* fetch(url, {signal}) rejects when its signal aborts
FetchAbortError == Err(0, {"AbortError"})

\* errors a provider call can fail with
OpErrors ==
    { Err(500, {}),                 \* an SDK error with status 500
      Err(0, {"Overloaded"}),
      Err(0, {"429"}),
      Err(0, {"401", "500"}),       \* a 401 whose text also holds "500"
      Err(0, {"30011"}),
      Err(0, {}) }                  \* anything else

\* lines 38-45
IsServerErr(e) ==
    \/ e.status >= 500
    \/ e.msg \cap {"500", "503", "Rpc failed", "xhr error", "fetch failed",
                   "Overloaded"} # {}

\* line 48
NonRetryable(e) == e.msg \cap {"30011", "401", "403"} # {}

\* line 238
isQuota(e) == e.msg \cap {"429", "Quota", "Overloaded"} # {}

RetryDecision_ServerFirst(e, retries) ==
    IF IsServerErr(e) /\ retries > 0 THEN "retry" ELSE "throw"

\* lines 47-57: what the catch block of runWithRetry does with error e of a
\* call whose signal is not aborted
RetryDecision(e, retries) ==
    IF NonRetryable(e) THEN "throw"
    ELSE IF IsServerErr(e) /\ retries > 0 THEN "retry"
    ELSE "throw"

NextDelay_Same(baseDelay) == baseDelay

\* line 55: baseDelay * 2
NextDelay(baseDelay) == baseDelay * 2

FallbackContinues_Always(e, isAborted) == TRUE

\* lines 236-239: the fallback loop goes on to the next model
FallbackContinues(e, isAborted) == ~isAborted /\ isQuota(e)

ThirdParty_ZhipuOnly == {"zhipu"}
\* line 212
ThirdParty == {"zhipu", "openai", "siliconflow"}

\* the providers the code names (lines 7, 212)
Providers == {"gemini", "zhipu", "openai", "siliconflow"}

ModelNames == {"", "gemini-2.0-flash", "gemini-2.0-flash-lite-preview-02-05",
               "custom-model"}

\* UserSettings, as line 6 types currentSettings; a base URL is given in
\* pieces: none, or a host path followed by a slash
SettingsSet == [provider : Providers, apiKey : {"", "key"},
                baseUrl : {<<>>, <<"https://api.siliconflow.cn/v1", "/">>},
                model : ModelNames, enableSearch : BOOLEAN]

\* lines 6-12
DefaultSettings == [provider |-> "gemini", apiKey |-> "", baseUrl |-> <<>>,
                    model |-> "gemini-2.0-flash", enableSearch |-> TRUE]

Candidates_DefaultsFirst(settings) ==
    << "gemini-2.0-flash-lite-preview-02-05",
       "gemini-2.0-flash",
       IF settings.model # "" THEN settings.model ELSE "gemini-2.0-flash" >>
\* lines 221-225
Candidates(settings) ==
    << IF settings.model # "" THEN settings.model ELSE "gemini-2.0-flash",
       "gemini-2.0-flash-lite-preview-02-05",
       "gemini-2.0-flash" >>

RECURSIVE UniqueFrom(_, _)
UniqueFrom(s, seen) ==
    IF s = <<>> THEN <<>>
    ELSE IF Head(s) \in seen THEN UniqueFrom(Tail(s), seen)
    ELSE <<Head(s)>> \o UniqueFrom(Tail(s), seen \cup {Head(s)})

uniqueModels_NoFallback(settings) == <<Candidates(settings)[1]>>

\* line 227: [...new Set(models)]
uniqueModels(settings) == UniqueFrom(Candidates(settings), {})

\* what a call settles with
NoResponse == [text |-> 0, sources |-> "-"]
Pending == [kind |-> "pending", err |-> NoError, res |-> NoResponse]
Value(r) == [kind |-> "value", err |-> NoError, res |-> r]
Raise(e) == [kind |-> "raise", err |-> e, res |-> NoResponse]

\* lines 74-77: the URL the request is posted to, baseUrl without its
\* trailing slashes and ending with /chat/completions
Endpoint(baseUrl) ==
    LET kept == {n \in 0..Len(baseUrl) : \A i \in (n + 1)..Len(baseUrl) : baseUrl[i] = "/"}
        url == SubSeq(baseUrl, 1, CHOOSE n \in kept : \A m \in kept : n <= m)
    IN IF url # <<>> /\ url[Len(url)] = "/chat/completions" THEN url
       ELSE Append(url, "/chat/completions")

\* what an adapter makes its request with: callGemini takes the key of the
\* settings or else of the environment, the forced model and the search tool
\* (lines 165-179); callOpenAICompatible the key, URL and model of the
\* settings, and the search tool for zhipu only (lines 70-83, 108-115)
Request(op, settings, forceModel) ==
    IF op = "callGemini"
    THEN [op |-> op, provider |-> "gemini", model |-> forceModel,
          key |-> IF settings.apiKey # "" THEN settings.apiKey ELSE "process.env.API_KEY",
          url |-> <<>>, search |-> settings.enableSearch]
    ELSE IF op = "callOpenAICompatible"
    THEN [op |-> op, provider |-> settings.provider, model |-> settings.model,
          key |-> settings.apiKey, url |-> Endpoint(settings.baseUrl),
          search |-> settings.provider = "zhipu" /\ settings.enableSearch]
    ELSE [op |-> op, provider |-> "-", model |-> "-", key |-> "-", url |-> <<>>,
          search |-> FALSE]

\* the response of the k-th provider call, made with the given model
Response(k, model) == [text |-> k, sources |-> model]

NoFrame == [top |-> "none", op |-> "none", settings |-> DefaultSettings,
            models |-> <<>>, idx |-> 0, retries |-> 0, baseDelay |-> 0]

SvcIdle ==
    /\ signalAborted = FALSE
    /\ pc = "idle"
    /\ frame = NoFrame
    /\ result = Pending
    /\ calls = <<>>
    /\ rws = <<>>
    /\ dispatchOut = Pending
    /\ abortAt = 0

\* the values the operators below pass along and the actions commit
Cur == [pc |-> pc, frame |-> frame, result |-> result, calls |-> calls,
        rws |-> rws, dispatchOut |-> dispatchOut]

Commit(c) ==
    /\ pc' = c.pc
    /\ frame' = c.frame
    /\ result' = c.result
    /\ calls' = c.calls
    /\ rws' = c.rws
    /\ dispatchOut' = c.dispatchOut

\* lines 280-283: analyzePaper resolves
AnalyzeReturn(c, r) ==
    [c EXCEPT !.pc = "done",
              !.result = Value([markdown |-> r.text, groundingChunks |-> r.sources])]

\* lines 284-289: analyzePaper rejects
AnalyzeCatch(c, e) ==
    [c EXCEPT !.pc = "done",
              !.result = Raise(IF signalAborted \/ e.msg = {"Aborted"}
                               THEN StoppedError ELSE e)]

\* dispatchAIRequest resolves into its caller: askFollowUp resolves with
\* the final answer cut out of the response text (lines 427-433)
DispatchReturn(c, r) ==
    LET c1 == [c EXCEPT !.dispatchOut = Value(r)]
    IN IF c.frame.top = "askFollowUp"
       THEN [c1 EXCEPT !.pc = "done", !.result = Value([finalAnswerOf |-> r.text])]
       ELSE AnalyzeReturn(c1, r)

\* dispatchAIRequest rejects into its caller: askFollowUp rejects with the
\* error as it is (lines 434-437)
DispatchThrow(c, e) ==
    LET c1 == [c EXCEPT !.dispatchOut = Raise(e)]
    IN IF c.frame.top = "askFollowUp"
       THEN [c1 EXCEPT !.pc = "done", !.result = Raise(e)]
       ELSE AnalyzeCatch(c1, e)

\* the observation of the running runWithRetry call, updated
Rw(c) == c.rws[Len(c.rws)]

SetRw(c, r) == [c EXCEPT !.rws[Len(c.rws)] = r]

EndRw(c, out) == SetRw(c, [Rw(c) EXCEPT !.out = out, !.aborted = signalAborted])

RECURSIVE RetryThrow(_, _), RetryCatch(_, _), RunWithRetry(_, _, _), StartRetry(_)

\* the call of runWithRetry by its caller (lines 215, 233, or directly)
StartRetry(c) ==
    RunWithRetry(
        [c EXCEPT !.rws = Append(@, [N |-> c.frame.retries, d |-> c.frame.baseDelay,
                                      attempts |-> 0, waits |-> <<>>, errs |-> <<>>,
                                      out |-> Pending, aborted |-> FALSE])],
        c.frame.retries, c.frame.baseDelay)

\* operation(): the adapter up to its await (callGemini lines 165-186,
\* callOpenAICompatible lines 70-107), or its failure before any await
Invoke_LiveSettings(c) ==
    LET f == c.frame
        forceModel == IF f.op = "callGemini" THEN f.models[f.idx] ELSE "-"
        request == Request(f.op, currentSettings, forceModel)
    IN IF f.op = "callGemini" /\ f.settings.apiKey = "" /\ ~envApiKey
       THEN RetryCatch(SetRw(c, [Rw(c) EXCEPT !.attempts = @ + 1,
                                              !.errs = Append(@, MissingKeyError)]),
                       MissingKeyError)
       ELSE SetRw([c EXCEPT !.pc = "attempt",
                            !.calls = Append(@, [request |-> request, op |-> f.op,
                                                 model |-> request.model,
                                                 out |-> Pending])],
                  [Rw(c) EXCEPT !.attempts = @ + 1])
Invoke(c) ==
    LET f == c.frame
        forceModel == IF f.op = "callGemini" THEN f.models[f.idx] ELSE "-"
        request == Request(f.op, f.settings, forceModel)
    IN IF f.op = "callGemini" /\ f.settings.apiKey = "" /\ ~envApiKey
       THEN RetryCatch(SetRw(c, [Rw(c) EXCEPT !.attempts = @ + 1,
                                              !.errs = Append(@, MissingKeyError)]),
                       MissingKeyError)
       ELSE SetRw([c EXCEPT !.pc = "attempt",
                            !.calls = Append(@, [request |-> request, op |-> f.op,
                                                 model |-> request.model,
                                                 out |-> Pending])],
                  [Rw(c) EXCEPT !.attempts = @ + 1])

RunWithRetry_SameRetries(c, retries, baseDelay) ==
    LET c1 == [c EXCEPT !.frame.baseDelay = baseDelay]
    IN IF signalAborted THEN RetryCatch(c1, AbortedError) ELSE Invoke(c1)
\* runWithRetry(operation, signal, retries, baseDelay), lines 30-32
RunWithRetry(c, retries, baseDelay) ==
    LET c1 == [c EXCEPT !.frame.retries = retries, !.frame.baseDelay = baseDelay]
    IN IF signalAborted THEN RetryCatch(c1, AbortedError) ELSE Invoke(c1)

RetryCatch_NoAbortCheck(c, e) ==
    IF RetryDecision(e, c.frame.retries) = "retry"
    THEN SetRw([c EXCEPT !.pc = "wait"],
               [Rw(c) EXCEPT !.waits = Append(@, c.frame.baseDelay)])
    ELSE RetryThrow(c, e)
\* lines 33-58
RetryCatch(c, e) ==
    IF signalAborted THEN RetryThrow(c, AbortedError)
    ELSE IF RetryDecision(e, c.frame.retries) = "retry"
    THEN SetRw([c EXCEPT !.pc = "wait"],
               [Rw(c) EXCEPT !.waits = Append(@, c.frame.baseDelay)])
    ELSE RetryThrow(c, e)

\* runWithRetry rejects with e: into the catch of dispatchAIRequest (lines
\* 234-244), or out of dispatchAIRequest (line 215), or to the direct caller
RetryThrow(c, e) ==
    LET c1 == EndRw(c, Raise(e))
        f == c.frame
    IN IF f.top = "runWithRetry" THEN [c1 EXCEPT !.pc = "done", !.result = Raise(e)]
       ELSE IF f.op = "callOpenAICompatible" THEN DispatchThrow(c1, e)
       ELSE IF FallbackContinues(e, signalAborted) /\ f.idx < Len(f.models)
       THEN StartRetry([c1 EXCEPT !.frame.idx = f.idx + 1,
                                  !.frame.retries = DefaultRetries,
                                  !.frame.baseDelay = DefaultBaseDelay])
       ELSE DispatchThrow(c1, e)

\* runWithRetry resolves with r (line 32)
RetryReturn(c, r) ==
    LET c1 == EndRw(c, Value(r))
    IN IF c.frame.top = "runWithRetry" THEN [c1 EXCEPT !.pc = "done", !.result = Value(r)]
       ELSE DispatchReturn(c1, r)

Dispatch_SearchAsConfigured(c, overrideSearch) ==
    LET settings == currentSettings
        f == [c.frame EXCEPT !.settings = settings,
                             !.retries = DefaultRetries,
                             !.baseDelay = DefaultBaseDelay]
    IN IF settings.provider \in ThirdParty
       THEN IF settings.apiKey = ""
            THEN DispatchThrow([c EXCEPT !.frame = f], KeyRequiredError)
            ELSE StartRetry([c EXCEPT !.frame = [f EXCEPT !.op = "callOpenAICompatible"]])
       ELSE StartRetry([c EXCEPT !.frame = [f EXCEPT !.op = "callGemini",
                                                     !.models = uniqueModels(settings),
                                                     !.idx = 1]])
\* dispatchAIRequest(..., overrideSearch), lines 208-233: settings is a copy
\* of currentSettings, with the search flag cleared unless overrideSearch
Dispatch(c, overrideSearch) ==
    LET settings == IF overrideSearch THEN currentSettings
                    ELSE [currentSettings EXCEPT !.enableSearch = FALSE]
        f == [c.frame EXCEPT !.settings = settings,
                             !.retries = DefaultRetries,
                             !.baseDelay = DefaultBaseDelay]
    IN IF settings.provider \in ThirdParty
       THEN IF settings.apiKey = ""
            THEN DispatchThrow([c EXCEPT !.frame = f], KeyRequiredError)
            ELSE StartRetry([c EXCEPT !.frame = [f EXCEPT !.op = "callOpenAICompatible"]])
       ELSE StartRetry([c EXCEPT !.frame = [f EXCEPT !.op = "callGemini",
                                                     !.models = uniqueModels(settings),
                                                     !.idx = 1]])

\* analyzePaperWithGemini(query, signal) up to its first await
callAnalyzePaper ==
    /\ pc = "idle"
    /\ Commit(Dispatch([Cur EXCEPT !.frame.top = "analyzePaper"], TRUE))
    /\ UNCHANGED <<currentSettings, envApiKey, signalAborted, abortAt>>
    /\ UNCHANGED <<appVars, jsonVars, chkVars>>

\* askFollowUp(question, originalContext, history) up to its first await
\* (line 424): it dispatches with no signal and with overrideSearch false
callAskFollowUp ==
    /\ pc = "idle"
    /\ ~signalAborted
    /\ Commit(Dispatch([Cur EXCEPT !.frame.top = "askFollowUp"], FALSE))
    /\ UNCHANGED <<currentSettings, envApiKey, signalAborted, abortAt>>
    /\ UNCHANGED <<appVars, jsonVars, chkVars>>

\* updateGlobalSettings(settings), lines 14-16
updateGlobalSettings(settings) ==
    /\ currentSettings' = settings
    /\ UNCHANGED <<envApiKey, signalAborted, pc, frame, result, calls, rws,
                   dispatchOut, abortAt>>
    /\ UNCHANGED <<appVars, jsonVars, chkVars>>

\* runWithRetry(operation, signal, n, d) called on its own
callRunWithRetry(n, d) ==
    /\ pc = "idle"
    /\ Commit(StartRetry([Cur EXCEPT !.frame.top = "runWithRetry",
                                     !.frame.op = "operation",
                                     !.frame.retries = n,
                                     !.frame.baseDelay = d]))
    /\ UNCHANGED <<currentSettings, envApiKey, signalAborted, abortAt>>
    /\ UNCHANGED <<appVars, jsonVars, chkVars>>

\* how a provider call in flight can settle: with its response (filled in by
\* operationSettles) or with an error
Settlements == {Value(NoResponse)} \cup {Raise(e) : e \in OpErrors \cup {FetchAbortError}}

\* the provider call in flight settles.  fetch is given the signal and
\* rejects once it is aborted; callGemini and a bare operation do not look
\* at it.
operationSettles(s) ==
    /\ pc = "attempt"
    /\ (frame.op = "callOpenAICompatible" /\ signalAborted) <=> s = Raise(FetchAbortError)
    /\ LET k == Len(calls)
           r == Response(k, calls[k].model)
           out == IF s.kind = "value" THEN Value(r) ELSE s
           c == [Cur EXCEPT !.calls[k].out = out]
       IN IF s.kind = "value" THEN Commit(RetryReturn(c, r))
          ELSE Commit(RetryCatch(SetRw(c, [Rw(c) EXCEPT !.errs = Append(@, s.err)]),
                                 s.err))
    /\ UNCHANGED <<currentSettings, envApiKey, signalAborted, abortAt>>
    /\ UNCHANGED <<appVars, jsonVars, chkVars>>

\* lines 121-143: the error callOpenAICompatible throws for a response that
\* is not ok.  Of the body: whether it parses as a JSON object, the code it
\* gives ("undefined" when none) and the texts its message holds (those of
\* the raw body when it is no JSON).  The error is a plain Error: it has no
\* status field, and the status is in its message only with a non-JSON body.
HttpError(status, body) ==
    IF ~body.json THEN Err(0, {ToString(status)} \cup body.msg)
    ELSE IF body.code = "30011" \/ "30011" \in body.msg THEN Err(0, {"30011"})
    ELSE Err(0, {body.code} \cup body.msg)

\* the fetch of callOpenAICompatible resolves with a response that is not ok
responseNotOk(status, body) ==
    /\ pc = "attempt"
    /\ frame.op = "callOpenAICompatible"
    /\ ~signalAborted
    /\ LET k == Len(calls)
           e == HttpError(status, body)
           c == [Cur EXCEPT !.calls[k] = [status |-> status, body |-> body, op |-> @.op,
                                          model |-> @.model, request |-> @.request,
                                          out |-> Raise(e)]]
       IN Commit(RetryCatch(SetRw(c, [Rw(c) EXCEPT !.errs = Append(@, e)]), e))
    /\ UNCHANGED <<currentSettings, envApiKey, signalAborted, abortAt>>
    /\ UNCHANGED <<appVars, jsonVars, chkVars>>

\* wait(baseDelay) is over (line 54): line 55
waitEnds ==
    /\ pc = "wait"
    /\ Commit(RunWithRetry(Cur, frame.retries - 1, NextDelay(frame.baseDelay)))
    /\ UNCHANGED <<currentSettings, envApiKey, signalAborted, abortAt>>
    /\ UNCHANGED <<appVars, jsonVars, chkVars>>

\* controller.abort() by the owner of the signal, before the call settles
abort ==
    /\ ~signalAborted
    /\ pc # "done"
    /\ frame.top # "askFollowUp"
    /\ signalAborted' = TRUE
    /\ abortAt' = Len(calls)
    /\ UNCHANGED <<currentSettings, envApiKey, pc, frame, result, calls, rws,
                   dispatchOut>>
    /\ UNCHANGED <<appVars, jsonVars, chkVars>>

\* ------------------------------------------------------------ JSON values
\* A text is a sequence of characters; a word that no operator looks into
\* (a key, a title) may stand as one element.  A value is [t, v]: t its
\* type (null, bool, num, str, arr, obj, undefined), v its content: a
\* string's characters, an array's items, an object's members [k, x] in
\* insertion order.
J(t, v) == [t |-> t, v |-> v]
JNull == J("null", <<>>)
JUndefined == J("undefined", <<>>)
Word(w) == J("str", <<w>>)
Member(k, x) == [k |-> <<k>>, x |-> x]

Digit == {"0", "1", "2", "3", "4", "5", "6", "7", "8", "9"}

RECURSIVE Concat(_)
Concat(segs) == IF segs = <<>> THEN <<>> ELSE Head(segs) \o Concat(Tail(segs))

\* s has p at index i
StartsAt(s, i, p) == i + Len(p) - 1 <= Len(s) /\ SubSeq(s, i, i + Len(p) - 1) = p

\* the index of the first character from i on that is no whitespace
RECURSIVE SkipWs(_, _)
SkipWs(s, i) == IF i <= Len(s) /\ s[i] = " " THEN SkipWs(s, i + 1) ELSE i

RECURSIVE TrimEnd(_)
TrimEnd(s) == IF s # <<>> /\ s[Len(s)] = " " THEN TrimEnd(SubSeq(s, 1, Len(s) - 1)) ELSE s

\* String.prototype.trim
Trim(s) == TrimEnd(SubSeq(s, SkipWs(s, 1), Len(s)))

\* ------------------------------------------------------------- JSON.parse
\* A parse step yields [ok, val, next]: next is the index after the value.
ParseFail == [ok |-> FALSE, val |-> JNull, next |-> 0]
Parsed(x, next) == [ok |-> TRUE, val |-> x, next |-> next]

\* the characters of a string literal from index i on, after the opening quote
RECURSIVE ParseChars(_, _, _)
ParseChars(s, i, acc) ==
    IF i > Len(s) THEN ParseFail
    ELSE IF s[i] = "\"" THEN Parsed(J("str", acc), i + 1)
    ELSE IF s[i] = "\\" THEN
        IF i + 1 > Len(s) THEN ParseFail
        ELSE IF s[i + 1] \in {"\"", "\\", "/"} THEN ParseChars(s, i + 2, Append(acc, s[i + 1]))
        ELSE IF s[i + 1] \in {"b", "f", "n", "r", "t"}
             THEN ParseChars(s, i + 2, Append(acc, "\\" \o s[i + 1]))
        ELSE IF /\ s[i + 1] = "u"
                /\ i + 5 <= Len(s)
                /\ \A k \in 2..5 : s[i + k] \in Digit \cup {"a", "b", "c", "d", "e", "f"}
             THEN ParseChars(s, i + 6,
                             Append(acc, "\\u" \o s[i + 2] \o s[i + 3] \o s[i + 4] \o s[i + 5]))
        ELSE ParseFail
    ELSE ParseChars(s, i + 1, Append(acc, s[i]))

RECURSIVE ParseDigits(_, _, _)
ParseDigits(s, i, n) ==
    IF i <= Len(s) /\ s[i] \in Digit
    THEN ParseDigits(s, i + 1, 10 * n + (CHOOSE d \in 0..9 : ToString(d) = s[i]))
    ELSE Parsed(J("num", n), i)

\* a number without sign and fraction: 0 | [1-9][0-9]*, then an optional
\* exponent e[0-9]+
ParseNumber(s, i) ==
    LET int == IF s[i] = "0" THEN Parsed(J("num", 0), i + 1) ELSE ParseDigits(s, i, 0)
        j == int.next
    IN IF j <= Len(s) /\ s[j] = "e"
       THEN IF j + 1 <= Len(s) /\ s[j + 1] \in Digit
            THEN LET exp == ParseDigits(s, j + 1, 0)
                 IN Parsed(J("num", int.val.v * 10^(exp.val.v)), exp.next)
            ELSE ParseFail
       ELSE int

\* the member (k, x) put into the members so far: a repeated key keeps its
\* place and takes the new value
PutMember(members, k, x) ==
    IF \E n \in DOMAIN members : members[n].k = k
    THEN [n \in DOMAIN members |-> IF members[n].k = k THEN [k |-> k, x |-> x] ELSE members[n]]
    ELSE Append(members, [k |-> k, x |-> x])

RECURSIVE ParseValue(_, _), ParseElements(_, _, _), ParseMembers(_, _, _)

\* after '[' and the items so far: i is at the next item
ParseElements(s, i, items) ==
    LET x == ParseValue(s, i)
        j == SkipWs(s, x.next)
    IN IF ~x.ok \/ j > Len(s) THEN ParseFail
       ELSE IF s[j] = "]" THEN Parsed(J("arr", Append(items, x.val)), j + 1)
       ELSE IF s[j] = "," THEN ParseElements(s, SkipWs(s, j + 1), Append(items, x.val))
       ELSE ParseFail

\* after '{' and the members so far: i is at the next key
ParseMembers(s, i, members) ==
    IF i > Len(s) \/ s[i] # "\"" THEN ParseFail
    ELSE LET k == ParseChars(s, i + 1, <<>>)
             c == SkipWs(s, k.next)
         IN IF ~k.ok \/ c > Len(s) \/ s[c] # ":" THEN ParseFail
            ELSE LET x == ParseValue(s, SkipWs(s, c + 1))
                     j == SkipWs(s, x.next)
                 IN IF ~x.ok \/ j > Len(s) THEN ParseFail
                    ELSE IF s[j] = "}"
                         THEN Parsed(J("obj", PutMember(members, k.val.v, x.val)), j + 1)
                    ELSE IF s[j] = ","
                         THEN ParseMembers(s, SkipWs(s, j + 1),
                                           PutMember(members, k.val.v, x.val))
                    ELSE ParseFail

\* the JSON value that starts at index i
ParseValue(s, i) ==
    IF i > Len(s) THEN ParseFail
    ELSE IF s[i] = "{" THEN
        LET j == SkipWs(s, i + 1)
        IN IF j <= Len(s) /\ s[j] = "}" THEN Parsed(J("obj", <<>>), j + 1)
           ELSE ParseMembers(s, j, <<>>)
    ELSE IF s[i] = "[" THEN
        LET j == SkipWs(s, i + 1)
        IN IF j <= Len(s) /\ s[j] = "]" THEN Parsed(J("arr", <<>>), j + 1)
           ELSE ParseElements(s, j, <<>>)
    ELSE IF s[i] = "\"" THEN ParseChars(s, i + 1, <<>>)
    ELSE IF s[i] \in Digit THEN ParseNumber(s, i)
    ELSE IF StartsAt(s, i, <<"n", "u", "l", "l">>) THEN Parsed(JNull, i + 4)
    ELSE IF StartsAt(s, i, <<"t", "r", "u", "e">>) THEN Parsed(J("bool", TRUE), i + 4)
    ELSE IF StartsAt(s, i, <<"f", "a", "l", "s", "e">>) THEN Parsed(J("bool", FALSE), i + 5)
    ELSE ParseFail

\* JSON.parse(s): [ok, val]; ~ok is a SyntaxError.  The value must be
\* followed by whitespace only.
JSONparse(s) ==
    LET x == ParseValue(s, SkipWs(s, 1))
    IN IF x.ok /\ SkipWs(s, x.next) = Len(s) + 1 THEN x ELSE ParseFail

\* --------------------------------------------------------- JSON.stringify
RECURSIVE Quote(_)
Quote(chars) ==
    IF chars = <<>> THEN <<>>
    ELSE (IF Head(chars) \in {"\"", "\\"} THEN <<"\\", Head(chars)>> ELSE <<Head(chars)>>)
         \o Quote(Tail(chars))

RECURSIVE NumChars(_)
NumChars(n) == IF n < 10 THEN <<ToString(n)>> ELSE NumChars(n \div 10) \o <<ToString(n % 10)>>

\* the texts joined by commas
RECURSIVE Join(_)
Join(texts) ==
    IF texts = <<>> THEN <<>>
    ELSE Head(texts) \o (IF Len(texts) > 1 THEN <<",">> \o Join(Tail(texts)) ELSE <<>>)

RECURSIVE JSONstringify(_)
JSONstringify(x) ==
    IF x.t = "null" THEN <<"n", "u", "l", "l">>
    ELSE IF x.t = "bool" THEN (IF x.v THEN <<"t", "r", "u", "e">> ELSE <<"f", "a", "l", "s", "e">>)
    ELSE IF x.t = "num" THEN NumChars(x.v)
    ELSE IF x.t = "str" THEN <<"\"">> \o Quote(x.v) \o <<"\"">>
    ELSE IF x.t = "arr" THEN <<"[">> \o Join([i \in DOMAIN x.v |-> JSONstringify(x.v[i])]) \o <<"]">>
    ELSE <<"{">>
         \o Join([i \in DOMAIN x.v |->
                      <<"\"">> \o Quote(x.v[i].k) \o <<"\"", ":">> \o JSONstringify(x.v[i].x)])
         \o <<"}">>

\* ------------------------------------------------------------ extractJSON
\* the grave accent U+0060, a character no string of this language can hold
Backtick == "U+0060"
Fence == <<Backtick, Backtick, Backtick>>
FenceJson == Fence \o <<"j", "s", "o", "n">>

\* cleanText: an opening fence with the whitespace after it, a closing fence
\* at the very end with the whitespace before it, then trim()
CleanText_AnyFence(text) ==
    IF \E i \in 1..Len(text) : StartsAt(text, i, Fence)
    THEN LET i == CHOOSE i \in 1..Len(text) :
                      /\ StartsAt(text, i, Fence)
                      /\ \A j \in 1..(i - 1) : ~StartsAt(text, j, Fence)
         IN Trim(SubSeq(text, 1, i - 1) \o SubSeq(text, i + 3, Len(text)))
    ELSE Trim(text)

CleanText(text) ==
    LET a == IF StartsAt(text, 1, FenceJson)
             THEN SubSeq(text, SkipWs(text, Len(FenceJson) + 1), Len(text)) ELSE text
        b == IF StartsAt(a, 1, Fence)
             THEN SubSeq(a, SkipWs(a, Len(Fence) + 1), Len(a)) ELSE a
        c == IF Len(b) >= Len(Fence) /\ StartsAt(b, Len(b) - Len(Fence) + 1, Fence)
             THEN TrimEnd(SubSeq(b, 1, Len(b) - Len(Fence))) ELSE b
    IN Trim(c)

\* what a call does: return a value or throw
Returned(x) == [kind |-> "return", val |-> x]
Thrown == [kind |-> "throw", val |-> JNull]
NotCalled == [kind |-> "none", val |-> JNull]

\* one pass of the loop body, at character i; st holds the loop's
\* variables, start = 0 is no start
ScanStep(text, i, st) ==
    LET char == text[i]
        parsed == JSONparse(SubSeq(text, st.start, i))
    IN IF st.escape THEN [st EXCEPT !.escape = FALSE]
       ELSE IF char = "\\" THEN [st EXCEPT !.escape = TRUE]
       ELSE IF char = "\"" THEN [st EXCEPT !.insideString = ~st.insideString]
       ELSE IF ~st.insideString /\ char = "{"
            THEN [st EXCEPT !.start = IF st.depth = 0 THEN i ELSE st.start,
                            !.depth = st.depth + 1]
       ELSE IF ~st.insideString /\ char = "}"
            THEN IF st.depth - 1 = 0 /\ st.start # 0
                 THEN [st EXCEPT !.depth = 0, !.start = 0,
                                 !.candidates = IF parsed.ok THEN Append(@, parsed.val)
                                                ELSE @]
                 ELSE [st EXCEPT !.depth = st.depth - 1]
       ELSE st

\* the loop over the characters lo..hi, in order: the first half of the
\* range, then the second half from the state the first half left
RECURSIVE ScanRange(_, _, _, _)
ScanRange(text, lo, hi, st) ==
    IF lo > hi THEN st
    ELSE IF lo = hi THEN ScanStep(text, lo, st)
    ELSE LET left == ScanRange(text, lo, (lo + hi) \div 2, st)
         IN IF left.depth \in Int THEN ScanRange(text, (lo + hi) \div 2 + 1, hi, left)
            ELSE left

\* the candidates the loop collects
Scan(text) ==
    ScanRange(text, 1, Len(text),
              [depth |-> 0, start |-> 0, insideString |-> FALSE, escape |-> FALSE,
               candidates |-> <<>>]).candidates

\* text.indexOf(c) and text.lastIndexOf(c), 1-based; 0 is not found
indexOf(text, c) ==
    IF \E i \in 1..Len(text) : text[i] = c
    THEN CHOOSE i \in 1..Len(text) : text[i] = c /\ \A j \in 1..(i - 1) : text[j] # c
    ELSE 0

lastIndexOf(text, c) ==
    IF \E i \in 1..Len(text) : text[i] = c
    THEN CHOOSE i \in 1..Len(text) : text[i] = c /\ \A j \in (i + 1)..Len(text) : text[j] # c
    ELSE 0

\* 3. the last resort: the slice from the first '{' to the last '}', null
\* when there is none or when its parse throws
LastResort_Rethrow(text) ==
    LET firstOpen == indexOf(text, "{")
        lastClose == lastIndexOf(text, "}")
        parsed == JSONparse(SubSeq(text, firstOpen, lastClose))
    IN IF firstOpen # 0 /\ lastClose # 0 /\ lastClose > firstOpen
       THEN IF parsed.ok THEN Returned(parsed.val) ELSE Thrown
       ELSE Returned(JNull)

LastResort(text) ==
    LET firstOpen == indexOf(text, "{")
        lastClose == lastIndexOf(text, "}")
        parsed == JSONparse(SubSeq(text, firstOpen, lastClose))
    IN IF firstOpen # 0 /\ lastClose # 0 /\ lastClose > firstOpen
       THEN IF parsed.ok THEN Returned(parsed.val) ELSE Returned(JNull)
       ELSE Returned(JNull)

\* 1. the direct parse of the cleaned text; 2. the last candidate of the scan
extractJSON(text) ==
    LET direct == JSONparse(CleanText(text))
        candidates == Scan(text)
    IN IF text = <<>> THEN Returned(JNull)
       ELSE IF direct.ok THEN Returned(direct.val)
       ELSE IF Len(candidates) > 0 THEN Returned(candidates[Len(candidates)])
       ELSE LastResort(text)

\* the OpenAI service's extractJSON: the direct parse and the last resort only
extractJSONOpenAI(text) ==
    LET direct == JSONparse(CleanText(text))
    IN IF text = <<>> THEN Returned(JNull)
       ELSE IF direct.ok THEN Returned(direct.val)
       ELSE LastResort(text)

\* ----------------------------------------------------- extractJSON inputs
\* well-formed objects, the last with a brace inside a string
ObjectTexts ==
    {<<"{", "\"", "a", "\"", ":", "1", "}">>,
     <<"{", "\"", "b", "\"", ":", "2", "}">>,
     <<"{", "\"", "c", "\"", ":", "\"", "}", "\"", "}">>}

ProseTexts == {<<" ">>, <<"a">>}

\* the pieces a text is put together from
Segments == ObjectTexts \cup ProseTexts
                \cup {<<"{">>, <<"}">>, <<"\"">>, <<"\\">>, Fence, FenceJson}

SeqsUpTo(S, n) == UNION {[1..k -> S] : k \in 0..n}

\* the values x of extractJSON(JSON.stringify(x)): scalars, strings of up to
\* MaxPieces pieces, arrays and objects of up to MaxItems items, and arrays
\* and objects of one array or object
Serializable ==
    LET Pieces == {<<"{">>, <<"}">>, <<"\"">>, <<"\\">>, Fence, <<" ">>}
        Items == {JNull, J("bool", TRUE), J("num", 0), J("num", 12),
                  J("str", <<>>), J("str", <<"}">>), J("str", <<"\"">>), J("str", Fence)}
        Members(S) == [k : {<<"a">>, <<"\"">>}, x : S]
        Containers(S, n) ==
            {J("arr", s) : s \in SeqsUpTo(S, n)}
                \cup {J("obj", m) : m \in {m \in SeqsUpTo(Members(S), n) :
                                              \A i, j \in DOMAIN m : m[i].k = m[j].k => i = j}}
    IN {JNull, J("bool", TRUE), J("bool", FALSE), J("num", 0), J("num", 7), J("num", 120)}
           \cup {J("str", Concat(p)) : p \in SeqsUpTo(Pieces, MaxPieces)}
           \cup Containers(Items, MaxItems)
           \cup Containers(Containers(Items, 1), 1)

JsonIdle ==
    /\ jsonSegs = <<>>
    /\ jsonSource = JUndefined
    /\ jsonCall = "none"
    /\ jsonResult = NotCalled

\* extractJSON(text) of the Gemini service
callExtractJSON ==
    /\ jsonCall = "none"
    /\ jsonCall' = "extractJSON"
    /\ jsonResult' = extractJSON(Concat(jsonSegs))
    /\ UNCHANGED <<jsonSegs, jsonSource, appVars, svcVars, chkVars>>

\* extractJSON(text) of the OpenAI service
callExtractJSONOpenAI ==
    /\ jsonCall = "none"
    /\ jsonCall' = "extractJSONOpenAI"
    /\ jsonResult' = extractJSONOpenAI(Concat(jsonSegs))
    /\ UNCHANGED <<jsonSegs, jsonSource, appVars, svcVars, chkVars>>

\* ------------------------------------------------- the best-effort checks
\* checkPaperTimeliness, checkVenueQuality, checkAuthorIntegrity and
\* verifyAndFindPaperLink exist twice: over dispatchAIRequest ("dispatch") and
\* over the SDK's generateContent ("sdk").

\* x.k of JavaScript, for x neither null nor undefined
Get(x, k) ==
    IF x.t = "obj" /\ \E n \in DOMAIN x.v : x.v[n].k = <<k>>
    THEN x.v[CHOOSE n \in DOMAIN x.v : x.v[n].k = <<k>>].x
    ELSE JUndefined

Falsy(x) == x \in {JUndefined, JNull, J("bool", FALSE), J("num", 0), J("str", <<>>)}

\* text.replace(/(fence)json|(fence)/g, ''): the matches are found from left
\* to right; skip counts the characters still to drop of the current match
FenceStep(text, i, st) ==
    IF st.skip > 0 THEN [st EXCEPT !.skip = st.skip - 1]
    ELSE IF StartsAt(text, i, FenceJson) THEN [st EXCEPT !.skip = Len(FenceJson) - 1]
    ELSE IF StartsAt(text, i, Fence) THEN [st EXCEPT !.skip = Len(Fence) - 1]
    ELSE [st EXCEPT !.out = Append(st.out, text[i])]

RECURSIVE FenceRange(_, _, _, _)
FenceRange(text, lo, hi, st) ==
    IF lo > hi THEN st
    ELSE IF lo = hi THEN FenceStep(text, lo, st)
    ELSE LET left == FenceRange(text, lo, (lo + hi) \div 2, st)
         IN IF left.skip \in Nat THEN FenceRange(text, (lo + hi) \div 2 + 1, hi, left)
            ELSE left

RemoveFences(text) == FenceRange(text, 1, Len(text), [skip |-> 0, out |-> <<>>]).out

venueText == <<"venue">>

\* the record a check returns from its catch block
DefaultReport(fn, version) ==
    IF fn = "checkPaperTimeliness" THEN
        J("obj", <<Member("isOutdated", J("bool", FALSE)),
                   Member("status",
                          IF version = "sdk" THEN Word("Unknown") ELSE Word("Check Unavailable")),
                   Member("summary",
                          IF version = "sdk" THEN Word("Could not verify timeliness.")
                          ELSE Word("Unable to verify timeliness.")),
                   Member("recommendations", J("arr", <<>>))>>)
    ELSE IF fn = "checkVenueQuality" THEN
        J("obj", <<Member("name", J("str", venueText)),
                   Member("type", Word("Unknown")),
                   Member("quality",
                          IF version = "sdk" THEN Word("Unknown") ELSE Word("Check Unavailable")),
                   Member("summary",
                          IF version = "sdk" THEN Word("Could not analyze venue.")
                          ELSE Word("Unable to analyze venue."))>>)
    ELSE J("obj", <<Member("hasIssues", J("bool", FALSE)),
                    Member("summary", Word("Integrity check unavailable."))>>)

\* ---- what the provider can answer
\* reports of the shape the prompt of fn asks for, a timeliness report with
\* 0..MaxRecs recommendations
Reports(fn) ==
    LET Rec(n) == J("obj", <<Member("title", J("str", <<"T", ToString(n)>>)),
                             Member("year", Word("2024")),
                             Member("reason", Word("r"))>>)
    IN IF fn = "checkPaperTimeliness" THEN
           {J("obj", <<Member("isOutdated", J("bool", TRUE)),
                       Member("status", Word("Legacy")),
                       Member("summary", Word("s")),
                       Member("recommendations", J("arr", [i \in 1..n |-> Rec(i)]))>>) :
                n \in 0..MaxRecs}
       ELSE IF fn = "checkVenueQuality" THEN
           {J("obj", <<Member("name", Word("CVPR")), Member("type", Word("Conference")),
                       Member("quality", Word("CCF A")), Member("summary", Word("s"))>>)}
       ELSE {J("obj", <<Member("hasIssues", J("bool", FALSE)), Member("summary", Word("s"))>>)}

\* texts that are no JSON
MalformedTexts == {<<>>, <<"{">>, <<"{", "\"", "a", "\"", ":", "}">>, <<"o", "o", "p", "s">>}

\* a report bare, in a code fence, and after prose; null; no JSON
ResponseTexts(fn) ==
    MalformedTexts
        \cup {JSONstringify(r) : r \in Reports(fn)}
        \cup {FenceJson \o <<" ">> \o JSONstringify(r) \o <<" ">> \o Fence : r \in Reports(fn)}
        \cup {<<"a", " ">> \o JSONstringify(r) : r \in Reports(fn)}
        \cup {JSONstringify(JNull)}

\* what a link sub-query can be answered: found, not found, no JSON
LinkTexts ==
    {JSONstringify(J("obj", <<Member("found", J("bool", TRUE)),
                              Member("url", Word("https://x")),
                              Member("verified_title", Word("T"))>>)),
     JSONstringify(J("obj", <<Member("found", J("bool", FALSE)),
                              Member("url", JNull),
                              Member("verified_title", Word("T"))>>)),
     <<"{">>}

\* a provider call settles with a text or fails
Answer(text) == [kind |-> "text", text |-> text]
Failure == [kind |-> "error", text |-> <<>>]
LinkPending == J("pending", <<>>)

ChkIdle ==
    /\ chkFn = "none"
    /\ chkVersion = "none"
    /\ chkPc = "idle"
    /\ chkMain = [kind |-> "none", text |-> <<>>]
    /\ chkReport = JUndefined
    /\ chkLinks = <<>>
    /\ chkResult = NotCalled

\* a call that lets no exception out, as a parse result
AsParsed(r) == [ok |-> r.kind = "return", val |-> r.val, next |-> 0]

\* the report a check reads out of the provider's text: [ok, val], ~ok when
\* the parse throws
ParseReport(version, text) ==
    IF version = "dispatch" THEN JSONparse(Trim(RemoveFences(text)))
    ELSE AsParsed(extractJSON(IF text = <<>> THEN <<"{", "}">> ELSE text))

\* data.found && data.url ? data.url : undefined, undefined too when the
\* parse throws or data is null
LinkIn(parsed) ==
    IF ~parsed.ok \/ parsed.val \in {JNull, JUndefined} THEN JUndefined
    ELSE IF ~Falsy(Get(parsed.val, "found")) /\ ~Falsy(Get(parsed.val, "url"))
         THEN Get(parsed.val, "url")
    ELSE JUndefined

\* verifyAndFindPaperLink from the settlement of its provider call on
LinkOf(version, out) ==
    IF out.kind = "error" THEN JUndefined ELSE LinkIn(ParseReport(version, out.text))

\* report.recommendations = the recommendations, each with its link
WithLinks(report, links) ==
    LET recs == Get(report, "recommendations").v
    IN J("obj", PutMember(report.v, <<"recommendations">>,
                          J("arr", [i \in DOMAIN recs |->
                                        J("obj", PutMember(recs[i].v, <<"link">>, links[i]))])))

callCheck(fn, version) ==
    /\ chkPc = "idle"
    /\ chkFn' = fn
    /\ chkVersion' = version
    /\ IF version = "sdk" /\ ~envApiKey
       THEN chkPc' = "done" /\ chkResult' = Thrown
       ELSE chkPc' = "main" /\ chkResult' = chkResult
    /\ UNCHANGED <<chkMain, chkReport, chkLinks>>
    /\ UNCHANGED <<appVars, svcVars, jsonVars>>

\* the check from the parse of the provider's text on, to its return or to
\* the await of its link sub-queries
readReport(out, parsed) ==
    LET caught == Returned(DefaultReport(chkFn, chkVersion))
        report == parsed.val
        recs == Get(parsed.val, "recommendations")
        finish(r) == /\ chkResult' = r
                     /\ chkPc' = "done"
                     /\ UNCHANGED <<chkReport, chkLinks>>
    IN IF out.kind = "error" \/ ~parsed.ok THEN finish(caught)
       ELSE IF chkFn = "checkPaperTimeliness" THEN
           IF chkVersion = "sdk" /\ Falsy(report) THEN finish(caught)
           ELSE IF report \in {JNull, JUndefined} THEN finish(caught)
           ELSE IF recs.t = "arr" /\ Len(recs.v) > 0 THEN
               /\ chkReport' = report
               /\ chkLinks' = [i \in DOMAIN recs.v |-> LinkPending]
               /\ IF chkVersion = "dispatch"
                  THEN chkResult' = Returned(report) /\ chkPc' = "done"
                  ELSE chkResult' = chkResult /\ chkPc' = "links"
           ELSE IF recs.t = "str" /\ Len(recs.v) > 0 /\ chkVersion = "sdk"
                THEN finish(caught)
           ELSE finish(Returned(report))
       ELSE IF chkVersion = "sdk" /\ Falsy(report) THEN finish(caught)
       ELSE finish(Returned(report))

\* the provider call of the check settles; without an API key the
\* dispatcher's call can only fail
checkSettles(out) ==
    /\ chkPc = "main"
    /\ (chkVersion = "dispatch" /\ ~envApiKey) => out = Failure
    /\ chkMain' = out
    /\ readReport(out, ParseReport(chkVersion, out.text))
    /\ UNCHANGED <<chkFn, chkVersion>>
    /\ UNCHANGED <<appVars, svcVars, jsonVars>>

\* the link sub-query of recommendation i settles; the SDK version returns
\* once all of them have
linkSettles(i, out) ==
    /\ i \in DOMAIN chkLinks
    /\ chkLinks[i] = LinkPending
    /\ LET links == [chkLinks EXCEPT ![i] = LinkOf(chkVersion, out)]
       IN /\ chkLinks' = links
          /\ IF chkVersion = "sdk" /\ \A k \in DOMAIN links : links[k] # LinkPending
             THEN chkResult' = Returned(WithLinks(chkReport, links)) /\ chkPc' = "done"
             ELSE UNCHANGED <<chkResult, chkPc>>
    /\ UNCHANGED <<chkFn, chkVersion, chkMain, chkReport>>
    /\ UNCHANGED <<appVars, svcVars, jsonVars>>

Init ==
    /\ AppInit
    /\ SvcIdle
    /\ currentSettings = DefaultSettings
    /\ envApiKey = FALSE
    /\ JsonIdle
    /\ ChkIdle

Next == QueueNext

Spec == Init /\ [][Next]_vars

\* the queue under the scheduling the code relies on: React runs the queue
\* effect after every commit that changed its dependencies, and every
\* provider call in flight settles
SpecFair ==
    /\ Init
    /\ [][Next]_vars
    /\ WF_vars(\E pdfTitle \in BOOLEAN : processNextInQueue(pdfTitle))
    /\ WF_vars(\E a \in attempts, outcome \in {"ok", "err"} : settleAnalysis(a, outcome))

ServiceInit ==
    /\ AppInit
    /\ SvcIdle
    /\ currentSettings \in SettingsSet
    /\ envApiKey \in BOOLEAN
    /\ JsonIdle
    /\ ChkIdle

ServiceNext ==
    \/ callAnalyzePaper
    \/ \E n \in 0..MaxRetriesArg, k \in 1..MaxDelayFactor :
          callRunWithRetry(n, k * DefaultBaseDelay)
    \/ \E s \in Settlements : operationSettles(s)
    \/ waitEnds
    \/ abort

SpecService == ServiceInit /\ [][ServiceNext]_vars

\* the dispatcher under its two callers, while the settings are changed:
\* to the defaults, or to settings that differ from them in every field
SettingsNext ==
    \/ callAnalyzePaper
    \/ callAskFollowUp
    \/ \E s \in Settlements : operationSettles(s)
    \/ waitEnds
    \/ abort
    \/ \E settings \in {DefaultSettings,
                         [provider |-> "zhipu", apiKey |-> "key",
                          baseUrl |-> <<"https://api.siliconflow.cn/v1", "/">>,
                          model |-> "custom-model", enableSearch |-> FALSE]} :
          updateGlobalSettings(settings)

SpecSettings == ServiceInit /\ [][SettingsNext]_vars

\* a dispatch, never cancelled, whose provider calls succeed or fail with a
\* 429, with a 429 whose text holds "500" (a quota message that names a
\* limit of 1500 requests, say) or with some other error, or get a 5xx
\* response whose body is plain text or a JSON error object
QuotaNext ==
    \/ callAnalyzePaper
    \/ \E e \in {NoError, Err(0, {"429"}), Err(0, {"429", "500"}), Err(0, {})} :
          operationSettles(IF e = NoError THEN Value(NoResponse) ELSE Raise(e))
    \/ \E status \in {500, 502},
          body \in {[json |-> FALSE, code |-> "undefined", msg |-> {}],
                    [json |-> TRUE, code |-> "undefined", msg |-> {}],
                    [json |-> TRUE, code |-> "500", msg |-> {}],
                    [json |-> TRUE, code |-> "30011", msg |-> {}]} :
          responseNotOk(status, body)
    \/ waitEnds

SpecQuota == ServiceInit /\ [][QuotaNext]_vars

JsonInit ==
    /\ AppInit
    /\ SvcIdle
    /\ currentSettings = DefaultSettings
    /\ envApiKey = FALSE
    /\ jsonCall = "none"
    /\ jsonResult = NotCalled
    /\ ChkIdle
    /\ \/ /\ jsonSegs \in SeqsUpTo(Segments, MaxSegments)
          /\ jsonSource = JUndefined
       \/ /\ jsonSource \in Serializable
          /\ jsonSegs = <<JSONstringify(jsonSource)>>

JsonNext ==
    \/ callExtractJSON
    \/ callExtractJSONOpenAI

SpecJson == JsonInit /\ [][JsonNext]_vars

ChecksInit ==
    /\ AppInit
    /\ SvcIdle
    /\ currentSettings = DefaultSettings
    /\ envApiKey \in BOOLEAN
    /\ JsonIdle
    /\ ChkIdle

ChecksNext ==
    \/ \E fn \in {"checkPaperTimeliness", "checkVenueQuality", "checkAuthorIntegrity"},
          version \in {"dispatch", "sdk"} : callCheck(fn, version)
    \/ \E out \in {Failure} \cup {Answer(t) : t \in ResponseTexts(chkFn)} : checkSettles(out)
    \/ \E i \in 1..MaxRecs, out \in {Failure} \cup {Answer(t) : t \in LinkTexts} :
          linkSettles(i, out)

SpecChecks == ChecksInit /\ [][ChecksNext]_vars

\* ------------------------------------------------------------ job queue
Analyzing == {i \in DOMAIN history : history[i].status = "analyzing"}

\* the drain loop takes job id in this step
DrainTakes(id) ==
    /\ \E t \in BOOLEAN : processNextInQueue(t)
    /\ CanStart(executionQueue, isProcessingQueue)
    /\ id = Head(executionQueue)
    /\ id \in DOMAIN history

C3_CancelledQueuedNeverStarts ==
    \A id \in cancelledQueued :
        /\ id \notin Range(executionQueue)
        /\ id # nextId
        /\ id # lastStarted
        /\ id \notin Analyzing
        /\ \A a \in attempts : a.id = id => ~a.viaQueue

C3_Witness ==
    \E id \in cancelledQueued :
        /\ lastStarted > id
        /\ ~isProcessingQueue
        /\ executionQueue = <<>>

\* C4: a cancel touches only the cancelled job: the cancel step leaves every
\* other job's item, controller and queue entry alone, and a job leaves the
\* execution queue only by being cancelled itself or by being the job the
\* drain loop took.
C4_CancelLeavesSiblings ==
    [][/\ \A id \in Ids : abortAnalysis(id) =>
              /\ \A j \in DOMAIN history \ {id} : history'[j] = history[j]
              /\ \A j \in Range(executionQueue) \ {id} : j \in Range(executionQueue')
              /\ aborted' \subseteq aborted \cup {abortControllers[id]}
       /\ \A j \in Range(executionQueue) \ Range(executionQueue') :
              \/ j = nextId
              \/ DrainTakes(j)
              \/ abortAnalysis(j)]_vars

\* -------------------------------------------------- retry and dispatch
Ended(r) == r.out.kind # "pending"

\* the transient class: a server error that is not of a non-retryable class
Transient(e) == IsServerErr(e) /\ ~NonRetryable(e)

AllTransient(r) == \A k \in DOMAIN r.errs : Transient(r.errs[k])

\* C5: in every call runWithRetry(operation, signal, N, d) the k-th wait is
\* d * 2^(k-1); a call that is not cancelled and in which every attempt
\* fails with a transient error ends after exactly N+1 attempts and N waits
\* with the last attempt's error; a call that returns a value returns the
\* value of its last attempt, which is its only successful one.
C5_RetryBackoff ==
    \A i \in DOMAIN rws :
        LET r == rws[i] IN
        /\ \A k \in DOMAIN r.waits : r.waits[k] = r.d * 2^(k - 1)
        /\ Ended(r) /\ ~r.aborted /\ r.out.kind = "raise" /\ AllTransient(r) =>
              /\ r.attempts = r.N + 1
              /\ Len(r.waits) = r.N
              /\ r.out.err = r.errs[r.N + 1]
        /\ Ended(r) /\ r.out.kind = "value" =>
              /\ Len(r.errs) = r.attempts - 1
              /\ Len(r.waits) = r.attempts - 1
              /\ r.out = calls[Len(calls)].out
              /\ pc = "done"

C5_Witness ==
    /\ frame.top = "runWithRetry"
    /\ pc = "done"
    /\ ~signalAborted
    /\ rws[1].N >= 2
    /\ rws[1].d # DefaultBaseDelay
    /\ AllTransient(rws[1])
    /\ rws[1].attempts = rws[1].N + 1
    /\ result.kind = "raise"

C7_CancelRaisesAborted ==
    /\ \A i \in DOMAIN rws :
          Ended(rws[i]) /\ rws[i].aborted => rws[i].out = Raise(AbortedError)
    /\ signalAborted => Len(calls) = abortAt

\* the fallback chain holds three different models
ThreeCandidates ==
    /\ frame.op = "callGemini"
    /\ Cardinality(Range(Candidates(frame.settings))) = 3

\* C8: with three different candidates m1, m2, m3: when runWithRetry for m1
\* raises a quota error, m2 is called next; and when a call of m2 succeeds,
\* dispatchAIRequest returns that call's response, analyzePaper returns it
\* as {markdown, groundingChunks}, and m3 is never called.
C8_FallbackSecondModel ==
    ThreeCandidates =>
        LET m == Candidates(frame.settings) IN
        /\ Len(rws) >= 1 /\ rws[1].out.kind = "raise" /\ isQuota(rws[1].out.err) =>
              /\ Len(rws) >= 2
              /\ Len(calls) > rws[1].attempts
              /\ calls[rws[1].attempts + 1].model = m[2]
        /\ \A k \in DOMAIN calls :
              calls[k].model = m[2] /\ calls[k].out.kind = "value" =>
                  /\ pc = "done"
                  /\ dispatchOut = Value(Response(k, m[2]))
                  /\ result = Value([markdown |-> k, groundingChunks |-> m[2]])
                  /\ \A j \in DOMAIN calls : calls[j].model # m[3]

C8_Witness ==
    /\ ThreeCandidates
    /\ pc = "done"
    /\ rws[1].out.kind = "raise"
    /\ isQuota(rws[1].out.err)
    /\ calls[Len(calls)].model = Candidates(frame.settings)[2]
    /\ result.kind = "value"

\* C9: when runWithRetry for a candidate model raises an error that is not a
\* quota error, that candidate is the last one tried and dispatchAIRequest
\* raises that very error.
C9_FatalStopsFallback ==
    frame.op = "callGemini" =>
        \A i \in DOMAIN rws :
            rws[i].out.kind = "raise" /\ ~isQuota(rws[i].out.err) =>
                /\ i = Len(rws)
                /\ pc = "done"
                /\ dispatchOut = Raise(rws[i].out.err)
                /\ \A k \in DOMAIN calls : \E j \in 1..i : calls[k].model = frame.models[j]

C9_Witness ==
    /\ ThreeCandidates
    /\ pc = "done"
    /\ ~signalAborted
    /\ Len(rws) = 1
    /\ rws[1].attempts = DefaultRetries + 1
    /\ rws[1].out.kind = "raise"
    /\ ~isQuota(rws[1].out.err)
    /\ calls[1].out.err # rws[1].out.err
    /\ dispatchOut = rws[1].out

\* C10 as stated: a call of analyzePaper whose signal is aborted before it
\* settles rejects with the "stopped by the user" error.
C10_AbortedNeverResolves ==
    frame.top = "analyzePaper" /\ pc = "done" /\ signalAborted =>
        result = Raise(StoppedError)

\* --------------------------------------------------- best-effort checks
\* C11 as stated: a check that has ended has not thrown, and when its
\* provider call failed or answered malformed JSON, or the API key is
\* missing, it has returned the default record of its catch block.
C11_ChecksNeverThrow ==
    chkPc = "done" =>
        /\ chkResult.kind = "return"
        /\ \/ chkMain.kind = "error"
           \/ chkMain.kind = "text" /\ chkMain.text # <<>> /\ chkMain.text \in MalformedTexts
           => chkResult = Returned(DefaultReport(chkFn, chkVersion))

\* ------------------------------------------------------------ extractJSON
\* C12 as stated: on a text of several independent well-formed objects, with
\* nothing or plain prose around and between them, extractJSON returns the
\* last object.
C12_LastObjectWins ==
    LET objs == {i \in DOMAIN jsonSegs : jsonSegs[i] \in ObjectTexts}
        last == CHOOSE i \in objs : \A j \in objs : j <= i
    IN /\ jsonCall # "none"
       /\ jsonSource = JUndefined
       /\ Cardinality(objs) >= 2
       /\ \A i \in DOMAIN jsonSegs : jsonSegs[i] \in ObjectTexts \cup ProseTexts
       => jsonResult = Returned(JSONparse(jsonSegs[last]).val)

\* the direct parse, the scan and the first-brace-to-last-brace slice of the
\* text all fail
AllFail ==
    LET text == Concat(jsonSegs)
    IN /\ ~JSONparse(CleanText(text)).ok
       /\ Scan(text) = <<>>
       /\ \/ indexOf(text, "{") = 0
          \/ lastIndexOf(text, "}") <= indexOf(text, "{")
          \/ ~JSONparse(SubSeq(text, indexOf(text, "{"), lastIndexOf(text, "}"))).ok

\* C13: extractJSON throws for no text, and returns null when the direct
\* parse, the balanced-object scan and the slice all fail.
C13_NeverThrows ==
    jsonCall = "extractJSON" =>
        /\ jsonResult.kind = "return"
        /\ AllFail => jsonResult = Returned(JNull)

\* a text with a first '{' before a last '}' whose slice does not parse
C13_Witness ==
    /\ jsonCall = "extractJSON"
    /\ AllFail
    /\ indexOf(Concat(jsonSegs), "{") # 0
    /\ lastIndexOf(Concat(jsonSegs), "}") > indexOf(Concat(jsonSegs), "{")
    /\ jsonResult = Returned(JNull)

\* C14: extractJSON(JSON.stringify(x)) = x for every serializable x.
C14_RoundTrip ==
    jsonCall = "extractJSON" /\ jsonSource # JUndefined =>
        jsonResult = Returned(jsonSource)

\* an object holding a string of three backticks and a string of a quote
C14_Witness ==
    /\ jsonCall = "extractJSON"
    /\ jsonSource = J("obj", <<Member("a", J("str", Fence)), Member("\"", J("str", <<"\"">>))>>)
    /\ jsonResult = Returned(jsonSource)

\* C15: updateGlobalSettings while a dispatch is in flight does not reach
\* that dispatch.  A dispatch reads currentSettings in the step that starts
\* it, keeps that copy in every later step, and every adapter call it makes
\* (a retry attempt, a fallback candidate) is made with the provider, key,
\* URL, model and search flag of that copy; a dispatch started after the
\* change reads the changed settings.
C15_SettingsReadAtStart ==
    [][LET started == IF pc # "idle" THEN frame.settings
                      ELSE IF frame'.top = "askFollowUp"
                      THEN [currentSettings EXCEPT !.enableSearch = FALSE]
                      ELSE currentSettings
           models == uniqueModels(started)
       IN frame'.top \in {"analyzePaper", "askFollowUp"} =>
             /\ frame'.settings = started
             /\ \A k \in DOMAIN calls' \ DOMAIN calls :
                   \E i \in DOMAIN models :
                      calls'[k].request = Request(calls'[k].op, started, models[i])]_vars
\* a second adapter call is made although the settings now differ in every field
C15_Witness ==
    /\ frame.top = "analyzePaper"
    /\ Len(calls) >= 2
    /\ currentSettings.provider = "zhipu" /\ frame.settings.provider = "gemini"
    /\ currentSettings.apiKey # frame.settings.apiKey
    /\ currentSettings.model # frame.settings.model
    /\ currentSettings.enableSearch # frame.settings.enableSearch
    /\ calls[2].out = Pending
    /\ calls[2].request.search = frame.settings.enableSearch
\* C19: with provider zhipu, openai or siliconflow a dispatch whose settings
\* hold no apiKey ends at once with the key-required error, before
\* runWithRetry and the adapter are called; with a key every call goes to
\* callOpenAICompatible with the configured model, whatever error came before.
C19_ThirdPartyDirect ==
    frame.top \in {"analyzePaper", "askFollowUp"}
    /\ frame.settings.provider \in {"zhipu", "openai", "siliconflow"} =>
        IF frame.settings.apiKey = ""
        THEN /\ calls = <<>> /\ rws = <<>>
             /\ pc = "done" /\ dispatchOut = Raise(KeyRequiredError)
        ELSE /\ Len(rws) = 1
             /\ \A k \in DOMAIN calls :
                   /\ calls[k].op = "callOpenAICompatible"
                   /\ calls[k].request.model = frame.settings.model
\* a quota error ended the dispatch after calls with the configured model only
C19_Witness ==
    /\ frame.top = "analyzePaper" /\ pc = "done"
    /\ frame.settings.provider = "openai" /\ frame.settings.model = "custom-model"
    /\ Len(calls) = 1
    /\ calls[1].out = Raise(Err(0, {"429"}))
    /\ dispatchOut = Raise(Err(0, {"429"}))
\* C20: a dispatch with overrideSearch false (askFollowUp) makes every
\* request with the search tool off, whatever enableSearch is configured,
\* and none of its steps changes currentSettings.
C20_SearchOffLocally ==
    [][frame'.top = "askFollowUp" =>
          /\ \A k \in DOMAIN calls' : ~calls'[k].request.search
          /\ <<pc, calls>>' # <<pc, calls>> => currentSettings' = currentSettings]_vars
\* askFollowUp has ended, its request was made without search, and the
\* configured enableSearch is still on
C20_Witness ==
    /\ frame.top = "askFollowUp" /\ pc = "done"
    /\ frame.settings.provider = "gemini"
    /\ Len(calls) = 1 /\ calls[1].out.kind = "value"
    /\ ~calls[1].request.search
    /\ currentSettings = [frame.settings EXCEPT !.enableSearch = TRUE]

\* C16: a job the drain loop takes is queued and becomes analyzing; when its
\* attempt settles the job has a terminal status: completed with the result
\* stored when analyzePaper resolved, error when it rejected, and error from
\* the moment it was cancelled; and batchProgress.current has grown by
\* exactly one.
C16_TakenJobEndsOnce ==
    [][/\ nextId = 0 /\ nextId' # 0 =>
             /\ history[nextId'].status = "queued"
             /\ history'[nextId'].status = "analyzing"
       /\ \A a \in attempts :
             a.viaQueue /\ (settleAnalysis(a, "ok") \/ settleAnalysis(a, "err")) =>
                /\ a.id \in DOMAIN history'
                /\ history'[a.id].status \in Terminal
                /\ batchProgress'.current = batchProgress.current + 1
                /\ settleAnalysis(a, "ok") /\ a.ctrl \notin aborted =>
                      history'[a.id] = [status |-> "completed", analysis |-> TRUE]
                /\ ~settleAnalysis(a, "ok") /\ a.ctrl \notin aborted =>
                      history'[a.id].status = "error"
                /\ a.ctrl \in aborted => history' = history
       /\ \A a \in attempts :
             a.viaQueue /\ abortAnalysis(a.id) => history'[a.id].status = "error"]_vars
C18_RetryResetsStatus ==
    [][\A id \in Ids :
          retryAnalysis(id) =>
             /\ \E a \in attempts' \ attempts :
                   /\ a.id = id
                   /\ a.ctrl = abortControllers'[id]
                   /\ \A b \in attempts : b.ctrl # a.ctrl
             /\ history'[id].status = "analyzing"]_vars
\* C21: the models a native dispatch calls are, in this order and each in
\* one run of calls, the configured model (gemini-2.0-flash when none is
\* configured), gemini-2.0-flash-lite-preview-02-05 and gemini-2.0-flash,
\* a model named twice being kept where it comes first; there is one
\* runWithRetry per model tried; and when the runWithRetry of every
\* candidate has raised a quota error, dispatchAIRequest raises the error of
\* the last one.
C21_FallbackChain ==
    frame.op = "callGemini" =>
        LET first == IF frame.settings.model = "" THEN "gemini-2.0-flash"
                     ELSE frame.settings.model
            lite == "gemini-2.0-flash-lite-preview-02-05"
            chain == <<first>> \o (IF first = lite THEN <<>> ELSE <<lite>>)
                               \o (IF first = "gemini-2.0-flash" THEN <<>>
                                   ELSE <<"gemini-2.0-flash">>)
            pos(m) == CHOOSE i \in DOMAIN chain : chain[i] = m
        IN /\ \A k \in DOMAIN calls : \E i \in DOMAIN chain : chain[i] = calls[k].model
           /\ \A k, l \in DOMAIN calls : k < l => pos(calls[k].model) <= pos(calls[l].model)
           /\ calls # <<>> => calls[1].model = first
           /\ \A k \in DOMAIN calls : pos(calls[k].model) <= Len(rws)
           /\ Len(rws) <= Len(chain)
           /\ calls # <<>> => pos(calls[Len(calls)].model) = Len(rws)
           /\ /\ Len(rws) = Len(chain)
              /\ \A i \in DOMAIN rws : rws[i].out.kind = "raise" /\ isQuota(rws[i].out.err)
              => pc = "done" /\ dispatchOut = rws[Len(rws)].out
\* three different candidates have failed with quota errors, the last one
\* with another error than the first
C21_Witness ==
    /\ frame.op = "callGemini" /\ frame.settings.model = "custom-model"
    /\ pc = "done" /\ Len(rws) = 3
    /\ \A i \in DOMAIN rws : rws[i].out.kind = "raise" /\ isQuota(rws[i].out.err)
    /\ rws[3].out.err # rws[1].out.err
    /\ calls[1].model = "custom-model"
    /\ calls[Len(calls)].model = "gemini-2.0-flash"
    /\ dispatchOut = rws[3].out
C23_QuotaFallsBackAtOnce ==
    frame.op = "callGemini" /\ frame.top # "runWithRetry" =>
        \A i \in DOMAIN rws :
            /\ rws[i].errs # <<>>
            /\ rws[i].errs[1].msg \cap {"429", "Quota"} # {}
            /\ ~signalAborted
            => /\ rws[i].attempts = 1
               /\ rws[i].waits = <<>>
               /\ rws[i].out = Raise(rws[i].errs[1])
               /\ i < Len(frame.models) => Len(rws) > i
\* C24 as stated: when a call of callOpenAICompatible gets a response with
\* status >= 500 and runWithRetry has retries left, the call is followed by
\* a wait and another call, whatever the body of the response.
C24_Http5xxRetried ==
    \A k \in DOMAIN calls :
        "status" \in DOMAIN calls[k] /\ calls[k].status >= 500 /\ k <= DefaultRetries =>
            \/ pc = "wait" /\ k = Len(calls)
            \/ Len(calls) > k
\* C25 as stated: abortAnalysis on a job with an attempt in flight aborts the
\* signal of that attempt and sets the job to error, and when the attempt
\* settles afterwards, with a value or with an error, history stays as it is.
C25_CancelledNeverCompletes ==
    [][/\ \A id \in Ids :
             abortAnalysis(id) /\ (\E a \in attempts : a.ctrl = abortControllers[id]) =>
                 /\ abortControllers[id] \in aborted'
                 /\ history'[id].status = "error"
       /\ \A a \in attempts, outcome \in {"ok", "err"} :
             settleAnalysis(a, outcome) /\ a.ctrl \in aborted => history' = history]_vars
\* C29 as stated: when an attempt whose signal was aborted settles while a
\* later attempt of the same job is registered under the id, it changes
\* neither history nor the controller registered for the later attempt.
C29_StaleAttemptIsInert ==
    [][\A a \in attempts, outcome \in {"ok", "err"} :
          /\ settleAnalysis(a, outcome)
          /\ a.ctrl \in aborted
          /\ \E b \in attempts : b.id = a.id /\ b # a /\ b.ctrl = abortControllers[a.id]
          => /\ history' = history
             /\ abortControllers' = abortControllers]_vars
\* C26 as stated: a timeliness check whose report has recommendations issues
\* one link sub-query for each, and once they have all settled the check
\* has returned the report with the same recommendations in the same order,
\* the i-th one with the link the i-th sub-query ended with (undefined when
\* that sub-query failed or found none).
C26_LinksJoinedPositionally ==
    /\ chkFn = "checkPaperTimeliness"
    /\ chkLinks # <<>>
    /\ \A k \in DOMAIN chkLinks : chkLinks[k] # LinkPending
    => /\ Len(chkLinks) = Len(Get(chkReport, "recommendations").v)
       /\ chkPc = "done"
       /\ chkResult.kind = "return"
       /\ LET recs == Get(chkResult.val, "recommendations")
          IN /\ recs.t = "arr"
             /\ DOMAIN recs.v = DOMAIN chkLinks
             /\ \A i \in DOMAIN chkLinks :
                   /\ Get(recs.v[i], "link") = chkLinks[i]
                   /\ Get(recs.v[i], "title") =
                          Get(Get(chkReport, "recommendations").v[i], "title")
\* C27 as stated: in every reachable state batchProgress.current is at most
\* batchProgress.total.
C27_CurrentAtMostTotal == batchProgress.current <= batchProgress.total
\* C28 as stated: under SpecFair every job that is queued eventually is
\* completed or in error, or is no longer an item of history.
C28_QueuedJobEnds ==
    \A id \in Ids :
        (id \in DOMAIN history /\ history[id].status = "queued")
            ~> (id \notin DOMAIN history \/ history[id].status \in Terminal)
\* C30: a dispatch (of analyzePaper or askFollowUp) makes at most
\* DefaultRetries + 1 = 3 adapter calls with an OpenAI-compatible provider
\* and at most 3 candidates x 3 attempts = 9 with the native one, each
\* runWithRetry making at most 3; at most one call is in flight, and it is
\* the last one; a dispatch that made them all and saw the last one settle
\* has ended.
C30_DispatchBound ==
    frame.top \in {"analyzePaper", "askFollowUp"} =>
        LET perRun == DefaultRetries + 1
            bound == IF frame.op = "callGemini" THEN 3 * perRun ELSE perRun
        IN /\ Len(calls) <= bound
           /\ \A i \in DOMAIN rws : rws[i].attempts <= perRun /\ Len(rws[i].waits) < perRun
           /\ Len(rws) <= IF frame.op = "callGemini" THEN 3 ELSE 1
           /\ \A k \in DOMAIN calls : calls[k].out = Pending => k = Len(calls) /\ pc = "attempt"
           /\ pc \in {"attempt", "wait", "done"}
           /\ Len(calls) = bound /\ calls[bound].out # Pending => pc = "done"
\* a native dispatch has ended with an error after calling each of three
\* candidates three times, with two waits each
C30_Witness ==
    /\ pc = "done"
    /\ frame.top = "analyzePaper"
    /\ frame.op = "callGemini"
    /\ Len(calls) = 9
    /\ Len(rws) = 3
    /\ \A i \in DOMAIN rws : rws[i].attempts = 3 /\ Len(rws[i].waits) = 2
    /\ dispatchOut.kind = "raise"
====
